---------------------------- MODULE Spec2Model ----------------------------
(***************************************************************************)
(* Model of the tnstc-location-api WebSocket server: the message handler   *)
(* of src/index.js (parse, validate, updateBusLocation, roster broadcast,  *)
(* bus-stop query) over a MongoDB store of ScheduledBus documents.         *)
(*                                                                         *)
(* The repository carries several revisions of updateBusLocation.  Two are *)
(* modelled, selected by the variable `build`:                             *)
(*   "index"  src/index.js:98-212          (origin-anchored metrics, then  *)
(*            a stop-passage block that reads the undeclared identifiers   *)
(*            busData and passedStops)                                     *)
(*   "draft"  src/unnamed/part_000:98-183  (origin-anchored metrics, stop  *)
(*            passage kept in a local copy of leftAt that is $set back)    *)
(* The message handler, lines 16-91, is the same text in every revision.   *)
(*                                                                         *)
(* Units.  Coordinates are integers counting metres of arc on the mean     *)
(* sphere (R = 6371 km), so 90 degrees is 10007543 and 360 degrees is      *)
(* 40030174.  Every position of the model lies on one meridian (modulo a   *)
(* full turn), where the haversine distance of two points is the absolute  *)
(* difference of their latitudes.  Distances are metres; the stored        *)
(* distanceTraveled / distanceRemaining are hundredths of a kilometre and  *)
(* journeyCompletion is hundredths of a percent, which is what toFixed(2)  *)
(* keeps.  An optional value is a sequence: <<>> absent, <<v>> present.    *)
(***************************************************************************)
EXTENDS Integers, Sequences, FiniteSets, TLC

VARIABLES
    build,      \* which revision of updateBusLocation the server runs
    routeOf,    \* trip id -> the route that populate resolves for it (or none)
    buses,      \* the ScheduledBus collection: trip id -> mutable fields
    readyState, \* connection -> "open" | "closing" | "closed"
    handlers,   \* message id -> the async message handler processing it
    inbox,      \* connection -> sequence of messages the server sent to it
    received,   \* connection -> how many of those messages its peer has taken
    now         \* the clock read by new Date()

vars == <<build, routeOf, buses, readyState, handlers, inbox, received, now>>

---------------------------------------------------------------------------
(* Bounds of the model                                                     *)

MaxMsgs == 2    \* inbound messages handled in one behaviour
MaxTime == 1    \* the clock runs from 0 to MaxTime

---------------------------------------------------------------------------
(* Optional values                                                         *)

None == <<>>
Some(v) == <<v>>
IsSome(o) == o # <<>>
Get(o) == o[1]

Abs(x) == IF x < 0 THEN -x ELSE x
Max(a, b) == IF a > b THEN a ELSE b
Min(a, b) == IF a < b THEN a ELSE b
Range(s) == {s[i] : i \in 1..Len(s)}

---------------------------------------------------------------------------
(* Program constants                                                       *)

LatMax == 10007543            \* 90 degrees  (schema: latitude min -90, max 90)
LngMax == 20015087            \* 180 degrees (schema: longitude min -180, max 180)
FullTurn == 2 * LngMax        \* 360 degrees
THRESHOLD_DISTANCE == 10      \* 0.01 km
PageLimit == 10               \* options.limit
PageNumber == 1               \* options.page

Builds == {"index", "draft"}
Statuses == {"Scheduled", "On Route", "Completed", "Cancelled"}

---------------------------------------------------------------------------
(* Reference data: the BusStop and Route collections (read-only here)      *)

Meridian == 8673 * 1000        \* the longitude every stop lies on (about 78 degrees)

\* BusStop documents in the order BusStop.find() returns them (natural order).
StopOrder == <<"A2", "A", "M", "D", "X">>
StopIds == Range(StopOrder)
BusStopDocs ==
    [s \in StopIds |->
        [coordinates |->
            [lat |-> CASE s = "A"  -> 1000
                       [] s = "A2" -> 1006
                       [] s = "M"  -> 6000
                       [] s = "D"  -> 11000
                       [] OTHER    -> 30000,
             lng |-> Meridian]]]

\* Route documents.  origin / destination are stop references that populate
\* resolves (absent when the reference dangles); totalDistance is absent
\* when the route was saved without it.
RouteIds == {"R1", "R2", "NoTotal", "NoOrigin", "NoDestination", "NoStops"}
RouteDocs ==
    [r \in RouteIds |->
        CASE r = "R1" ->
               [origin |-> Some("A"), destination |-> Some("D"),
                stops |-> <<"A", "A2", "M", "D">>, totalDistance |-> Some(10000)]
          [] r = "R2" ->
               [origin |-> Some("M"), destination |-> Some("D"),
                stops |-> <<"M", "D">>, totalDistance |-> Some(5000)]
          [] r = "NoTotal" ->
               [origin |-> Some("A"), destination |-> Some("D"),
                stops |-> <<"A", "D">>, totalDistance |-> None]
          [] r = "NoOrigin" ->
               [origin |-> None, destination |-> Some("D"),
                stops |-> <<"A", "D">>, totalDistance |-> Some(10000)]
          [] r = "NoDestination" ->
               [origin |-> Some("A"), destination |-> None,
                stops |-> <<"A", "D">>, totalDistance |-> Some(10000)]
          [] OTHER ->
               [origin |-> Some("A"), destination |-> Some("D"),
                stops |-> <<>>, totalDistance |-> Some(10000)]]

\* ScheduledBus documents, identified by creation rank (createdAt ascending).
\* The route reference, the status and createdAt are not written by the server.
TripIds == 1..12
TripRoute(t) ==
    CASE t \in {1, 2, 11} -> Some("R1")
      [] t = 3  -> Some("NoTotal")
      [] t = 4  -> Some("NoOrigin")
      [] t = 5  -> Some("NoDestination")
      [] t = 6  -> Some("NoStops")
      [] t = 12 -> None               \* the route document no longer exists
      [] OTHER  -> Some("R2")
TripStatus(t) ==
    CASE t \in {1, 11} -> "On Route"
      [] t = 7         -> "Completed"
      [] OTHER         -> "Scheduled"

---------------------------------------------------------------------------
(* Geospatial math (./utils/time.js)                                       *)

\* Great-circle distance in metres.  With the longitudes a whole number of
\* turns apart the haversine formula reduces to R * |lat1 - lat2|.
haversineDistance(lat1, lng1, lat2, lng2) ==
    Abs(lat1 - lat2)

\* Speed in metres per clock unit; absent without a previous fix or when the
\* clock has not advanced past the previous fix.
calculateSpeed(prevLat, prevLng, prevTimestamp, lat, lng, curTime) ==
    IF ~IsSome(prevLat) \/ ~IsSome(prevLng) \/ ~IsSome(prevTimestamp)
    THEN None
    ELSE IF curTime <= Get(prevTimestamp)
         THEN None
         ELSE Some(haversineDistance(Get(prevLat), Get(prevLng), lat, lng)
                     \div (curTime - Get(prevTimestamp)))

\* Number.prototype.toFixed(2) of a distance in km, as hundredths of a km.
toFixed2Km(metres) == (metres + 5) \div 10

\* The quotient without the factor 100.
ratioOf(distance, total) ==
    (distance \div total) * 100
      + (((distance % total) * 100) + (total \div 2)) \div total

\* (distanceFromOrigin / route.totalDistance) * 100, as hundredths of a percent
\* (rounded as toFixed(2) rounds).
percentOf(distance, total) ==
    (distance \div total) * 10000
      + (((distance % total) * 10000) + (total \div 2)) \div total

---------------------------------------------------------------------------
(* Documents and messages                                                  *)

Connections == {1, 2}
MsgIds == 1..MaxMsgs
UnknownTrip == CHOOSE n \in 1..99 : n \notin TripIds   \* an id no document has

\* A ScheduledBus document as created by the scheduler: no fix, no progress.
NewBus ==
    [location |-> [latitude |-> None, longitude |-> None, lastUpdated |-> None],
     distanceTraveled |-> None, distanceRemaining |-> None,
     journeyCompletion |-> None, speed |-> None, leftAt |-> <<>>]

NoData ==
    [type |-> "none", scheduledBusId |-> None, latitude |-> None,
     longitude |-> None, busStopId |-> None, status |-> None]

locationUpdate(id, lat, lng) ==
    [NoData EXCEPT !.type = "locationUpdate", !.scheduledBusId = id,
                   !.latitude = lat, !.longitude = lng]

busStopRequest(stop, status) ==
    [NoData EXCEPT !.type = "busStopRequest", !.busStopId = stop, !.status = status]

\* The messages clients send in the model.  Fixes for trip 1 (route R1, origin
\* A at 1000, destination D at 11000): 1003 is 3 m from stops A and A2, 6000 is
\* stop M, 16000 lies 5 km past the destination, LatMax + 1000 is a latitude
\* above 90 degrees, Meridian + FullTurn a longitude above 180 degrees.
TrackInputs ==
    {locationUpdate(Some(1), Some(lat), Some(Meridian)) :
        lat \in {1003, 6000, 16000, LatMax + 1000}}

\* A good update, updates for unknown and unresolved trips, malformed messages.
ErrorInputs ==
    {locationUpdate(Some(t), Some(6000), Some(Meridian)) :
        t \in {1, 3, 4, 5, 6, 12, UnknownTrip}}
    \cup {locationUpdate(None, Some(6000), Some(Meridian)),
          locationUpdate(Some(1), None, Some(Meridian)),
          locationUpdate(Some(1), Some(6000), None),
          [NoData EXCEPT !.type = "unparseable"]}

FanoutInputs ==
    {locationUpdate(Some(1), Some(6000), Some(Meridian)),
     locationUpdate(Some(UnknownTrip), Some(6000), Some(Meridian)),
     locationUpdate(Some(1), Some(6000), None)}

QueryInputs ==
    {busStopRequest(stop, status) :
        stop \in {None, Some("A"), Some("X")},
        status \in {None, Some({}), Some({"On Route"})}}

\* A position report next to queries for a served and an unserved stop.
MixedInputs ==
    {locationUpdate(Some(1), Some(6000), Some(Meridian)),
     busStopRequest(Some("A"), None),
     busStopRequest(Some("X"), None)}

\* Position reports of one trip while the clock runs.
ClockInputs ==
    {locationUpdate(Some(1), Some(lat), Some(Meridian)) : lat \in {1003, 6000}}

\* Position reports of two trips of the same route.
FleetInputs ==
    {locationUpdate(Some(1), Some(6000), Some(Meridian)),
     locationUpdate(Some(2), Some(1003), Some(Meridian)),
     locationUpdate(Some(2), Some(11000), Some(Meridian))}

\* Position reports at the origin and half way, for a trip that is new and
\* for one that is under way.
ProgressInputs ==
    {locationUpdate(Some(1), Some(1000), Some(Meridian)),
     locationUpdate(Some(1), Some(6000), Some(Meridian)),
     locationUpdate(Some(2), Some(6000), Some(Meridian))}

\* Position reports next to stops of another route and of no route: trip 8
\* runs on R2 (stops M, D) and reports from stops A and A2 of R1 and from its
\* own stop M; trip 1 runs on R1 and reports from stop X, which no route has.
StopInputs ==
    {locationUpdate(Some(8), Some(1003), Some(Meridian)),
     locationUpdate(Some(8), Some(6000), Some(Meridian)),
     locationUpdate(Some(1), Some(30000), Some(Meridian))}

\* Position reports while the observers take their messages late.
BacklogInputs ==
    {locationUpdate(Some(1), Some(6000), Some(Meridian))}

Inputs ==
    TrackInputs \cup ErrorInputs \cup FanoutInputs \cup QueryInputs
    \cup MixedInputs \cup ClockInputs \cup FleetInputs \cup BacklogInputs
    \cup ProgressInputs \cup StopInputs
    \cup {locationUpdate(Some(1), Some(6000), Some(Meridian + FullTurn)),
          locationUpdate(Some(2), Some(6000), Some(Meridian)),
          busStopRequest(Some("D"), Some({"Scheduled", "Cancelled"})),
          [NoData EXCEPT !.type = "ping"]}

\* Messages the server sends.  `cause` is the id of the inbound message whose
\* handler sent it (bookkeeping of the model, not part of the payload).
ErrorMsg(text, m) == [type |-> "error", error |-> text, buses |-> None, cause |-> m]
BusUpdateMsg(roster, m) == [type |-> "busUpdate", error |-> "", buses |-> Some(roster), cause |-> m]
BusStopResponseMsg(schedules, m) ==
    [type |-> "busStopResponse", error |-> "", buses |-> Some(schedules), cause |-> m]

\* One invocation of the async message handler.
IdleHandler ==
    [pc |-> "idle", conn |-> 0, data |-> NoData, scheduledBus |-> None,
     updateFields |-> None, pushed |-> None, updatedBus |-> FALSE,
     roster |-> None, outcome |-> "none", thrown |-> ""]

---------------------------------------------------------------------------
(* updateBusLocation: the pure part                                        *)

\* if (!route || !route.origin || !route.destination || !route.stops
\*     || !route.totalDistance) throw ...   (route.stops is always an array)
routeInvalid(route) ==
    \/ ~IsSome(route)
    \/ ~IsSome(RouteDocs[Get(route)].origin)
    \/ ~IsSome(RouteDocs[Get(route)].destination)
    \/ ~IsSome(RouteDocs[Get(route)].totalDistance)
    \/ Get(RouteDocs[Get(route)].totalDistance) = 0

\* A query without the filter: every stop of the collection.
findStopsAll(route) ==
    StopOrder

\* BusStop.find({_id: {$in: route.stops.map(stop => stop.stopId)}})
findStops(route) ==
    SelectSeq(StopOrder, LAMBDA s : s \in Range(RouteDocs[route].stops))

\* The percentage left as computed, without the clamp to [0, 100].
completionPercentageUnclamped(distanceFromOrigin, totalDistance) ==
    percentOf(distanceFromOrigin, totalDistance)

\* let completionPercentage = (distanceFromOrigin / route.totalDistance) * 100;
\* completionPercentage = Math.max(0, Math.min(completionPercentage, 100));
completionPercentage(distanceFromOrigin, totalDistance) ==
    Max(0, Min(percentOf(distanceFromOrigin, totalDistance), 10000))

\* remainingDistance = Math.max(remainingDistance, 0);
remainingDistance(lat, lng, destination) ==
    Max(haversineDistance(lat, lng, destination.lat, destination.lng), 0)

\* stops.find(stop => haversineDistance(latitude, longitude, ...) < THRESHOLD_DISTANCE)
RECURSIVE passedStop(_, _, _)
passedStop(stops, lat, lng) ==
    IF stops = <<>> THEN None
    ELSE LET c == BusStopDocs[Head(stops)].coordinates IN
         IF haversineDistance(lat, lng, c.lat, c.lng) < THRESHOLD_DISTANCE
         THEN Some(Head(stops))
         ELSE passedStop(Tail(stops), lat, lng)

\* The check left out: an empty stop list goes on to the computation.
noStopsFoundIgnored(stops) ==
    FALSE

\* if (!stops.length) throw new Error("No stops found for this route")
noStopsFound(stops) ==
    stops = <<>>

\* leftAt.some(entry => entry.stop.toString() === stopId.toString())
alreadyRecorded(leftAt, stopId) ==
    \E i \in 1..Len(leftAt) : leftAt[i].stop = stopId

\* A stop-passage block that puts the new entry in front.
leftAtAfterPrepend(leftAt, passed, t) ==
    IF IsSome(passed) /\ ~alreadyRecorded(leftAt, Get(passed))
    THEN <<[stop |-> Get(passed), time |-> t]>> \o leftAt
    ELSE leftAt

\* The local leftAt after the stop-passage block (part_000:145-157).
leftAtAfter(leftAt, passed, t) ==
    IF IsSome(passed) /\ ~alreadyRecorded(leftAt, Get(passed))
    THEN Append(leftAt, [stop |-> Get(passed), time |-> t])
    ELSE leftAt

\* The distance of the earlier revisions (part_000:448-464): the way from the
\* previous fix added to the document's distanceTravelled, a field the schema
\* does not have, so that the default 0 is what is added to.
newDistanceTravelled(doc, r, lat, lng) ==
    LET distanceIncrement ==
            IF IsSome(doc.location.latitude) /\ IsSome(doc.location.longitude)
            THEN haversineDistance(Get(doc.location.latitude),
                                   Get(doc.location.longitude), lat, lng)
            ELSE 0
    IN  Min(0 + distanceIncrement, Get(r.totalDistance))

\* const distanceFromOrigin = haversineDistance(route.origin.coordinates.lat,
\*     route.origin.coordinates.lng, latitude, longitude)
distanceFromOrigin(doc, r, lat, lng) ==
    LET origin == BusStopDocs[Get(r.origin)].coordinates
    IN  haversineDistance(origin.lat, origin.lng, lat, lng)

\* The updateFields object (part_000:119-170): metrics anchored at the route
\* origin, the speed estimate, and the whole local leftAt array.
updateFields(doc, route, lat, lng, t) ==
    LET r == RouteDocs[route]
        destination == BusStopDocs[Get(r.destination)].coordinates
        fromOrigin == distanceFromOrigin(doc, r, lat, lng)
    IN  [latitude |-> lat,
         longitude |-> lng,
         lastUpdated |-> t,
         distanceTraveled |-> toFixed2Km(fromOrigin),
         distanceRemaining |-> toFixed2Km(remainingDistance(lat, lng, destination)),
         journeyCompletion |->
             completionPercentage(fromOrigin, Get(r.totalDistance)),
         speed |-> calculateSpeed(doc.location.latitude, doc.location.longitude,
                                  doc.location.lastUpdated, lat, lng, t),
         leftAt |-> leftAtAfter(doc.leftAt, passedStop(findStops(route), lat, lng), t)]

\* A $set that stores 0 for a speed that could not be estimated.
applySetZeroSpeed(doc, f) ==
    [doc EXCEPT !.location = [latitude |-> Some(f.latitude),
                              longitude |-> Some(f.longitude),
                              lastUpdated |-> Some(f.lastUpdated)],
                !.distanceTraveled = Some(f.distanceTraveled),
                !.distanceRemaining = Some(f.distanceRemaining),
                !.journeyCompletion = Some(f.journeyCompletion),
                !.speed = IF IsSome(f.speed) THEN f.speed ELSE Some(0),
                !.leftAt = f.leftAt]

\* findByIdAndUpdate(id, {$set: updateFields}): what the store does to the document.
applySet(doc, f) ==
    [doc EXCEPT !.location = [latitude |-> Some(f.latitude),
                              longitude |-> Some(f.longitude),
                              lastUpdated |-> Some(f.lastUpdated)],
                !.distanceTraveled = Some(f.distanceTraveled),
                !.distanceRemaining = Some(f.distanceRemaining),
                !.journeyCompletion = Some(f.journeyCompletion),
                !.speed = IF IsSome(f.speed) THEN f.speed ELSE @,
                !.leftAt = f.leftAt]

\* An update that writes the fields to every document of the collection.
storeUpdateMany(coll, id, f) ==
    [t \in DOMAIN coll |-> applySet(coll[t], f)]

\* ScheduledBus.findByIdAndUpdate(id, ...) resolved: the one document named by
\* id carries the fields, every other document is as it was.
storeUpdate(coll, id, f) ==
    [coll EXCEPT ![id] = applySet(@, f)]

\* A rejected update that has stored the local leftAt all the same.
storeRejectPartial(coll, id, f) ==
    [coll EXCEPT ![id].leftAt = f.leftAt]

\* ScheduledBus.findByIdAndUpdate(id, ...) rejected: a single-document update
\* is atomic, nothing of it is stored.
storeReject(coll, id, f) ==
    coll

---------------------------------------------------------------------------
(* The bus-stop query: the pure part                                       *)

\* The check left out: the query runs without a stop id.
busStopIdMissingIgnored(d) ==
    FALSE

\* if (!busStopId) return ws.send({ error: "Bus stop ID is required" })
busStopIdMissing(d) ==
    ~IsSome(d.busStopId)

\* A parser that accepts every frame.
parseThrowsNever(d) ==
    FALSE

\* const data = JSON.parse(message): throws SyntaxError on a frame that is not JSON.
parseThrows(d) ==
    d.type = "unparseable"

\* if (!scheduledBusId || latitude === undefined || longitude === undefined)
invalidDataFormat(d) ==
    ~IsSome(d.scheduledBusId) \/ ~IsSome(d.latitude) \/ ~IsSome(d.longitude)

\* ScheduledBus.paginate({}, {page: 1, limit: 10, sortBy: 'createdAt:asc'}).results
paginate ==
    [i \in 1..Max(0, Min(PageLimit, Cardinality(TripIds) - (PageNumber - 1) * PageLimit))
        |-> (PageNumber - 1) * PageLimit + i]

\* schedule.route.stops.some(stop => stop.stopId._id.toString() === busStopId)
stopMatches(t, busStopId) ==
    busStopId \in Range(RouteDocs[Get(routeOf[t])].stops)

\* Reading schedule.route.stops of a schedule whose route populated to null throws.
filterThrows(results) ==
    \E i \in 1..Len(results) : ~IsSome(routeOf[results[i]])

\* The two filters of index.js:62-73 over the page.
filterSchedules(results, busStopId, status) ==
    LET byStop == IF IsSome(busStopId)
                  THEN SelectSeq(results, LAMBDA t : stopMatches(t, Get(busStopId)))
                  ELSE results
    IN  IF IsSome(status) /\ Get(status) # {}
        THEN SelectSeq(byStop, LAMBDA t : TripStatus(t) \in Get(status))
        ELSE byStop

---------------------------------------------------------------------------
(* Sockets                                                                 *)

\* A reply that goes out on every open socket.
wsSendToAll(ib, c, msg) ==
    [k \in DOMAIN ib |-> IF readyState[k] = "open" THEN Append(ib[k], msg) ELSE ib[k]]

\* ws.send(msg): delivered while the socket is open, dropped afterwards.
wsSend(ib, c, msg) ==
    IF readyState[c] = "open" THEN [ib EXCEPT ![c] = Append(@, msg)] ELSE ib

\* wss.clients in insertion order: the sockets not yet removed by 'close'.
wssClients ==
    SelectSeq(<<1, 2>>, LAMBDA c : readyState[c] # "closed")

\* A loop that returns after the first delivery.
RECURSIVE forEachClientFirstOnly(_, _, _)
forEachClientFirstOnly(clients, ib, msg) ==
    IF clients = <<>> THEN ib
    ELSE IF readyState[Head(clients)] = "open"
         THEN [ib EXCEPT ![Head(clients)] = Append(@, msg)]
         ELSE forEachClientFirstOnly(Tail(clients), ib, msg)

\* A loop that a socket that is no longer open brings to an end.
RECURSIVE forEachClientAborting(_, _, _)
forEachClientAborting(clients, ib, msg) ==
    IF clients = <<>> THEN ib
    ELSE IF readyState[Head(clients)] = "open"
         THEN forEachClientAborting(Tail(clients),
                                    [ib EXCEPT ![Head(clients)] = Append(@, msg)], msg)
         ELSE ib

\* A loop that waits for each send to be taken by the peer: it gets no further
\* than a socket whose peer has not yet taken what was sent to it before.
RECURSIVE forEachClientAwaiting(_, _, _)
forEachClientAwaiting(clients, ib, msg) ==
    IF clients = <<>> THEN ib
    ELSE IF readyState[Head(clients)] # "open"
         THEN forEachClientAwaiting(Tail(clients), ib, msg)
         ELSE IF received[Head(clients)] < Len(ib[Head(clients)])
              THEN [ib EXCEPT ![Head(clients)] = Append(@, msg)]
              ELSE forEachClientAwaiting(Tail(clients),
                                         [ib EXCEPT ![Head(clients)] = Append(@, msg)], msg)

\* wss.clients.forEach(client => { if (client.readyState === ws.OPEN) client.send(msg) })
RECURSIVE forEachClient(_, _, _)
forEachClient(clients, ib, msg) ==
    IF clients = <<>> THEN ib
    ELSE forEachClient(Tail(clients),
                       IF readyState[Head(clients)] = "open"
                       THEN [ib EXCEPT ![Head(clients)] = Append(@, msg)]
                       ELSE ib,
                       msg)

---------------------------------------------------------------------------
(* State machine                                                           *)

Init ==
    /\ build \in Builds
    /\ routeOf = [t \in TripIds |-> TripRoute(t)]
    /\ buses = [t \in TripIds |-> NewBus]
    /\ readyState = [c \in Connections |-> "open"]
    /\ handlers = [m \in MsgIds |-> IdleHandler]
    /\ inbox = [c \in Connections |-> <<>>]
    /\ received = [c \in Connections |-> 0]
    /\ now = 0

\* A handler that has run to its end; its locals are gone.
finished(h, outcome) ==
    [h EXCEPT !.pc = "done", !.scheduledBus = None, !.updateFields = None,
              !.roster = None, !.outcome = outcome]

\* The message of a rejected store call (the driver's, not the server's).
StoreError == "MongoError"

\* catch (error) { ws.send(JSON.stringify({ error: "Failed to process request" })) }
\* An error thrown inside updateBusLocation is logged with its message and
\* rethrown by its own catch, and lands here as well; `thrown` keeps the
\* message that was logged.
catchError(m, message) ==
    /\ handlers' = [handlers EXCEPT ![m] = [finished(@, "error") EXCEPT !.thrown = message]]
    /\ inbox' = wsSend(inbox, handlers[m].conn, ErrorMsg("Failed to process request", m))

\* ws.on("message"): the synchronous head of the handler, up to its first await.
OnMessage(c, d) ==
    /\ readyState[c] = "open"
    /\ \E m \in MsgIds :
        /\ handlers[m].pc = "idle"
        /\ \A k \in MsgIds : k < m => handlers[k].pc # "idle"
        /\ LET h == [IdleHandler EXCEPT !.conn = c, !.data = d] IN
           CASE parseThrows(d) ->
                  /\ handlers' = [handlers EXCEPT ![m] =
                                    [finished(h, "error") EXCEPT !.thrown = "SyntaxError"]]
                  /\ inbox' = wsSend(inbox, c, ErrorMsg("Failed to process request", m))
             [] d.type = "locationUpdate" ->
                  IF invalidDataFormat(d)
                  THEN /\ handlers' = [handlers EXCEPT ![m] = finished(h, "error")]
                       /\ inbox' = wsSend(inbox, c, ErrorMsg("Invalid data format", m))
                  ELSE /\ handlers' = [handlers EXCEPT ![m] = [h EXCEPT !.pc = "findById"]]
                       /\ inbox' = inbox
             [] d.type = "busStopRequest" ->
                  IF busStopIdMissing(d)
                  THEN /\ handlers' = [handlers EXCEPT ![m] = finished(h, "error")]
                       /\ inbox' = wsSend(inbox, c, ErrorMsg("Bus stop ID is required", m))
                  ELSE /\ handlers' = [handlers EXCEPT ![m] = [h EXCEPT !.pc = "paginate"]]
                       /\ inbox' = inbox
             [] OTHER ->
                  \* a message of another type: neither branch runs
                  /\ handlers' = [handlers EXCEPT ![m] = finished(h, "ignored")]
                  /\ inbox' = inbox
    /\ UNCHANGED <<build, routeOf, buses, readyState, received, now>>

\* await ScheduledBus.findById(scheduledBusId).populate(route, origin, destination)
\* and the two checks that follow it.
FindById(m) ==
    /\ handlers[m].pc = "findById"
    /\ \E resolved \in BOOLEAN :
        LET id == Get(handlers[m].data.scheduledBusId) IN
        IF ~resolved
        THEN catchError(m, StoreError)
        ELSE IF id \notin TripIds
        THEN catchError(m, "Scheduled bus not found")
        ELSE IF routeInvalid(routeOf[id])
        THEN catchError(m, "Route data is invalid or missing required details")
        ELSE /\ handlers' = [handlers EXCEPT ![m].pc = "findStops",
                                             ![m].scheduledBus = Some(buses[id])]
             /\ inbox' = inbox
    /\ UNCHANGED <<build, routeOf, buses, readyState, received, now>>

\* await BusStop.find(...), then the synchronous body of updateBusLocation up to
\* the call of findByIdAndUpdate.
FindStops(m) ==
    /\ handlers[m].pc = "findStops"
    /\ \E resolved \in BOOLEAN :
        LET h == handlers[m]
            id == Get(h.data.scheduledBusId)
            route == Get(routeOf[id])
            f == updateFields(Get(h.scheduledBus), route,
                              Get(h.data.latitude), Get(h.data.longitude), now)
        IN
        IF ~resolved
        THEN catchError(m, StoreError)
        ELSE IF noStopsFound(findStops(route))
        THEN catchError(m, "No stops found for this route")
        ELSE IF build = "index"
        THEN \* index.js:177 reads busData, which is declared nowhere: ReferenceError
             catchError(m, "busData is not defined")
        ELSE /\ handlers' =
                   [handlers EXCEPT
                       ![m].pc = "findByIdAndUpdate",
                       ![m].updateFields = Some(f),
                       ![m].pushed =
                           IF Len(f.leftAt) > Len(Get(h.scheduledBus).leftAt)
                           THEN Some(f.leftAt[Len(f.leftAt)].stop) ELSE None]
             /\ inbox' = inbox
    /\ UNCHANGED <<build, routeOf, buses, readyState, received, now>>

\* await ScheduledBus.findByIdAndUpdate(scheduledBusId, {$set: updateFields}, {new: true})
FindByIdAndUpdate(m) ==
    /\ handlers[m].pc = "findByIdAndUpdate"
    /\ \E resolved \in BOOLEAN :
        LET id == Get(handlers[m].data.scheduledBusId)
            f == Get(handlers[m].updateFields)
        IN
        IF ~resolved
        THEN catchError(m, StoreError) /\ buses' = storeReject(buses, id, f)
        ELSE /\ buses' = storeUpdate(buses, id, f)
             /\ handlers' = [handlers EXCEPT ![m].pc = "find", ![m].updatedBus = TRUE]
             /\ inbox' = inbox
    /\ UNCHANGED <<build, routeOf, readyState, received, now>>

\* const buses = await ScheduledBus.find().populate("route driver bus")
Find(m) ==
    /\ handlers[m].pc = "find"
    /\ \E resolved \in BOOLEAN :
        IF ~resolved
        THEN catchError(m, StoreError)
        ELSE /\ handlers' = [handlers EXCEPT ![m].pc = "forEach", ![m].roster = Some(buses)]
             /\ inbox' = inbox
    /\ UNCHANGED <<build, routeOf, buses, readyState, received, now>>

\* wss.clients.forEach(...): the broadcast, one synchronous loop.
ForEach(m) ==
    /\ handlers[m].pc = "forEach"
    /\ inbox' = forEachClient(wssClients, inbox, BusUpdateMsg(Get(handlers[m].roster), m))
    /\ handlers' = [handlers EXCEPT ![m] = finished(@, "ok")]
    /\ UNCHANGED <<build, routeOf, buses, readyState, received, now>>

\* await ScheduledBus.paginate(...), populate, the two filters and the reply.
Paginate(m) ==
    /\ handlers[m].pc = "paginate"
    /\ \E resolved \in BOOLEAN :
        LET d == handlers[m].data IN
        IF ~resolved
        THEN catchError(m, StoreError)
        ELSE IF filterThrows(paginate)
        THEN catchError(m, "Cannot read properties of null (reading 'stops')")
        ELSE /\ handlers' = [handlers EXCEPT ![m] = finished(@, "ok")]
             /\ inbox' = wsSend(inbox, handlers[m].conn,
                                BusStopResponseMsg(
                                    filterSchedules(paginate, d.busStopId, d.status), m))
    /\ UNCHANGED <<build, routeOf, buses, readyState, received, now>>

\* The peer or the network starts closing a socket: readyState leaves OPEN.
Closing(c) ==
    /\ readyState[c] = "open"
    /\ readyState' = [readyState EXCEPT ![c] = "closing"]
    /\ UNCHANGED <<build, routeOf, buses, handlers, inbox, received, now>>

\* ws.on("close"): the socket is closed and leaves wss.clients.
OnClose(c) ==
    /\ readyState[c] = "closing"
    /\ readyState' = [readyState EXCEPT ![c] = "closed"]
    /\ UNCHANGED <<build, routeOf, buses, handlers, inbox, received, now>>

\* The peer of socket c takes the next message the server sent to it; until
\* then the message sits in the socket's send buffer (client.send returns at
\* once, index.js:37 does not wait for it).
Receive(c) ==
    /\ readyState[c] = "open"
    /\ received[c] < Len(inbox[c])
    /\ received' = [received EXCEPT ![c] = @ + 1]
    /\ UNCHANGED <<build, routeOf, buses, readyState, handlers, inbox, now>>

\* Time passes.
Tick ==
    /\ now < MaxTime
    /\ now' = now + 1
    /\ UNCHANGED <<build, routeOf, buses, readyState, handlers, inbox, received>>

Next ==
    \/ \E c \in Connections, d \in Inputs : OnMessage(c, d)
    \/ \E m \in MsgIds : FindById(m)
    \/ \E m \in MsgIds : FindStops(m)
    \/ \E m \in MsgIds : FindByIdAndUpdate(m)
    \/ \E m \in MsgIds : Find(m)
    \/ \E m \in MsgIds : ForEach(m)
    \/ \E m \in MsgIds : Paginate(m)
    \/ \E c \in Connections : Closing(c)
    \/ \E c \in Connections : OnClose(c)
    \/ \E c \in Connections : Receive(c)
    \/ Tick

Spec == Init /\ [][Next]_vars

\* The same machine driven by one family of messages at a time.

\* Position reports of one driver for one resolved trip.
NextTrack ==
    \/ \E d \in TrackInputs : OnMessage(1, d)
    \/ \E m \in MsgIds : FindById(m)
    \/ \E m \in MsgIds : FindStops(m)
    \/ \E m \in MsgIds : FindByIdAndUpdate(m)
    \/ \E m \in MsgIds : Find(m)
    \/ \E m \in MsgIds : ForEach(m)

SpecTrack == Init /\ [][NextTrack]_vars

\* Good, unresolvable and malformed position reports from every connection.
NextErrors ==
    \/ \E c \in Connections, d \in ErrorInputs : OnMessage(c, d)
    \/ \E m \in MsgIds : FindById(m)
    \/ \E m \in MsgIds : FindStops(m)
    \/ \E m \in MsgIds : FindByIdAndUpdate(m)
    \/ \E m \in MsgIds : Find(m)
    \/ \E m \in MsgIds : ForEach(m)

SpecErrors == Init /\ [][NextErrors]_vars

\* Position reports while observers disconnect.
NextFanout ==
    \/ \E c \in Connections, d \in FanoutInputs : OnMessage(c, d)
    \/ \E m \in MsgIds : FindById(m)
    \/ \E m \in MsgIds : FindStops(m)
    \/ \E m \in MsgIds : FindByIdAndUpdate(m)
    \/ \E m \in MsgIds : Find(m)
    \/ \E m \in MsgIds : ForEach(m)
    \/ \E c \in Connections : Closing(c)
    \/ \E c \in Connections : OnClose(c)

SpecFanout == Init /\ [][NextFanout]_vars

\* Bus-stop queries from every connection.
NextQuery ==
    \/ \E c \in Connections, d \in QueryInputs : OnMessage(c, d)
    \/ \E m \in MsgIds : Paginate(m)

SpecQuery == Init /\ [][NextQuery]_vars

\* Bus-stop queries over more than one content of the store: the catalogue
\* as scheduled, and the same with the route of trip 2 deleted since.
StoreLayouts ==
    {[t \in TripIds |-> TripRoute(t)],
     [t \in TripIds |-> IF t = 2 THEN None ELSE TripRoute(t)]}

InitStore ==
    /\ build \in Builds
    /\ routeOf \in StoreLayouts
    /\ buses = [t \in TripIds |-> NewBus]
    /\ readyState = [c \in Connections |-> "open"]
    /\ handlers = [m \in MsgIds |-> IdleHandler]
    /\ inbox = [c \in Connections |-> <<>>]
    /\ received = [c \in Connections |-> 0]
    /\ now = 0

SpecStore == InitStore /\ [][NextQuery]_vars

\* Position reports and bus-stop queries side by side.
NextMixed ==
    \/ \E c \in Connections, d \in MixedInputs : OnMessage(c, d)
    \/ \E m \in MsgIds : FindById(m)
    \/ \E m \in MsgIds : FindStops(m)
    \/ \E m \in MsgIds : FindByIdAndUpdate(m)
    \/ \E m \in MsgIds : Find(m)
    \/ \E m \in MsgIds : ForEach(m)
    \/ \E m \in MsgIds : Paginate(m)

SpecMixed == Init /\ [][NextMixed]_vars

\* Position reports of one trip while time passes.
NextClock ==
    \/ \E d \in ClockInputs : OnMessage(1, d)
    \/ \E m \in MsgIds : FindById(m)
    \/ \E m \in MsgIds : FindStops(m)
    \/ \E m \in MsgIds : FindByIdAndUpdate(m)
    \/ \E m \in MsgIds : Find(m)
    \/ \E m \in MsgIds : ForEach(m)
    \/ Tick

SpecClock == Init /\ [][NextClock]_vars

\* The same position reports with the clock standing still: reports that
\* are sent again after the store rejected a call.
NextRetry ==
    \/ \E d \in ClockInputs : OnMessage(1, d)
    \/ \E m \in MsgIds : FindById(m)
    \/ \E m \in MsgIds : FindStops(m)
    \/ \E m \in MsgIds : FindByIdAndUpdate(m)
    \/ \E m \in MsgIds : Find(m)
    \/ \E m \in MsgIds : ForEach(m)

SpecRetry == Init /\ [][NextRetry]_vars

\* Position reports of one trip processed one after another: a report is
\* received only when the handler of the one before it has run to its end.
OnMessageInTurn(c, d) ==
    /\ \A m \in MsgIds : handlers[m].pc \in {"idle", "done"}
    /\ OnMessage(c, d)

NextInTurn ==
    \/ \E d \in ClockInputs : OnMessageInTurn(1, d)
    \/ \E m \in MsgIds : FindById(m)
    \/ \E m \in MsgIds : FindStops(m)
    \/ \E m \in MsgIds : FindByIdAndUpdate(m)
    \/ \E m \in MsgIds : Find(m)
    \/ \E m \in MsgIds : ForEach(m)
    \/ Tick

SpecInTurn == Init /\ [][NextInTurn]_vars

\* Position reports from places where stops of other routes stand.
NextStops ==
    \/ \E d \in StopInputs : OnMessage(1, d)
    \/ \E m \in MsgIds : FindById(m)
    \/ \E m \in MsgIds : FindStops(m)
    \/ \E m \in MsgIds : FindByIdAndUpdate(m)
    \/ \E m \in MsgIds : Find(m)
    \/ \E m \in MsgIds : ForEach(m)

SpecStops == Init /\ [][NextStops]_vars

\* Position reports on a store in which trip 2 is under way: its document is
\* the one a report 15 km from the origin left, 5 km past the destination.
UnderWay ==
    [NewBus EXCEPT !.location = [latitude |-> Some(16000), longitude |-> Some(Meridian),
                                 lastUpdated |-> Some(0)],
                   !.distanceTraveled = Some(1500),
                   !.distanceRemaining = Some(500),
                   !.journeyCompletion = Some(100 * 100)]

InitProgress ==
    /\ build \in Builds
    /\ routeOf = [t \in TripIds |-> TripRoute(t)]
    /\ buses = [t \in TripIds |-> IF t = 2 THEN UnderWay ELSE NewBus]
    /\ readyState = [c \in Connections |-> "open"]
    /\ handlers = [m \in MsgIds |-> IdleHandler]
    /\ inbox = [c \in Connections |-> <<>>]
    /\ received = [c \in Connections |-> 0]
    /\ now = 0

NextProgress ==
    \/ \E d \in ProgressInputs : OnMessage(1, d)
    \/ \E m \in MsgIds : FindById(m)
    \/ \E m \in MsgIds : FindStops(m)
    \/ \E m \in MsgIds : FindByIdAndUpdate(m)
    \/ \E m \in MsgIds : Find(m)
    \/ \E m \in MsgIds : ForEach(m)

SpecProgress == InitProgress /\ [][NextProgress]_vars

\* Position reports of two trips.
NextFleet ==
    \/ \E d \in FleetInputs : OnMessage(1, d)
    \/ \E m \in MsgIds : FindById(m)
    \/ \E m \in MsgIds : FindStops(m)
    \/ \E m \in MsgIds : FindByIdAndUpdate(m)
    \/ \E m \in MsgIds : Find(m)
    \/ \E m \in MsgIds : ForEach(m)

SpecFleet == Init /\ [][NextFleet]_vars

\* Position reports while the observers take what is sent to them when they
\* please.
NextBacklog ==
    \/ \E d \in BacklogInputs : OnMessage(1, d)
    \/ \E m \in MsgIds : FindById(m)
    \/ \E m \in MsgIds : FindStops(m)
    \/ \E m \in MsgIds : FindByIdAndUpdate(m)
    \/ \E m \in MsgIds : Find(m)
    \/ \E m \in MsgIds : ForEach(m)
    \/ \E c \in Connections : Receive(c)

SpecBacklog == Init /\ [][NextBacklog]_vars

---------------------------------------------------------------------------
(* Vocabulary of the properties                                            *)

\* Handler m processes a position report for trip t.
isUpdateFor(m, t) ==
    /\ handlers[m].data.type = "locationUpdate"
    /\ handlers[m].data.scheduledBusId = Some(t)

\* No handler is in flight.
quiescent == \A m \in MsgIds : handlers[m].pc \in {"idle", "done"}

\* Number of leftAt entries that name stop s.
countStop(leftAt, s) == Cardinality({i \in 1..Len(leftAt) : leftAt[i].stop = s})

\* The reported position of d is closer to stop s than the proximity threshold.
nearStop(d, s) ==
    /\ IsSome(d.latitude) /\ IsSome(d.longitude)
    /\ Abs(Get(d.latitude) - BusStopDocs[s].coordinates.lat) < THRESHOLD_DISTANCE

inRange(lat, lng) ==
    /\ -LatMax <= lat /\ lat <= LatMax
    /\ -LngMax <= lng /\ lng <= LngMax

\* Trips that position reports address in the model.
TrackedTrips == {t \in TripIds : IsSome(routeOf[t]) /\ Get(routeOf[t]) = "R1"}

---------------------------------------------------------------------------
(* C1.  Two location updates for the same trip that are processed          *)
(* concurrently never lose a StopLog append: once both have completed, the *)
(* trip's leftAt holds every stop entry either of them appended.           *)
(* Stated as: when no handler is in flight, every handler whose write was  *)
(* applied and that had pushed a stop finds that stop in the trip's        *)
(* leftAt.  The draft revision violates it: both handlers read leftAt,     *)
(* each pushes onto its own copy and $sets the whole array.                *)
C1_NoLostAppend ==
    quiescent =>
        \A m \in MsgIds, t \in TrackedTrips :
            (isUpdateFor(m, t) /\ handlers[m].updatedBus /\ IsSome(handlers[m].pushed))
                => countStop(buses[t].leftAt, Get(handlers[m].pushed)) >= 1

---------------------------------------------------------------------------
(* C2.  Stop-passage idempotence: leftAt holds at most one entry per       *)
(* distinct stop, and two updates that both place the vehicle within the   *)
(* proximity threshold of the same stop leave exactly one leftAt entry for *)
(* that stop.                                                              *)
(* Stated as: no stop occurs twice in any leftAt; and when at least two    *)
(* updates of a trip have run to their end, none of them rejected by the   *)
(* store, and every update of the trip was within the threshold of route   *)
(* stop s, leftAt names s exactly once.                                    *)
C2_NoDuplicateStops ==
    \A t \in TripIds, s \in StopIds : countStop(buses[t].leftAt, s) <= 1

C2_StopIdempotence ==
    /\ C2_NoDuplicateStops
    /\ \A t \in TrackedTrips : \A s \in Range(RouteDocs[Get(routeOf[t])].stops) :
          LET reports == {m \in MsgIds : isUpdateFor(m, t)} IN
          ( /\ Cardinality(reports) >= 2
            /\ \A m \in reports :
                  /\ handlers[m].pc = "done"
                  /\ handlers[m].thrown # StoreError
                  /\ nearStop(handlers[m].data, s) )
          => countStop(buses[t].leftAt, s) = 1

---------------------------------------------------------------------------
(* C3.  In every reachable persisted state of a trip journeyCompletion is  *)
(* within [0, 100] and distanceRemaining is at least 0 (journeyCompletion  *)
(* is kept in hundredths of a percent).                                    *)
C3_ProgressInRange ==
    \A t \in TripIds :
        /\ IsSome(buses[t].journeyCompletion) =>
              /\ 0 <= Get(buses[t].journeyCompletion)
              /\ Get(buses[t].journeyCompletion) <= 100 * 100
        /\ IsSome(buses[t].distanceRemaining) => Get(buses[t].distanceRemaining) >= 0

\* An in-range fix 15 km from the origin of a 10 km route was persisted: the
\* unclamped percentage is 150.
C3_Witness ==
    \E t \in TrackedTrips :
        /\ buses[t].location.latitude = Some(16000)
        /\ inRange(16000, Get(buses[t].location.longitude))
        /\ buses[t].journeyCompletion = Some(100 * 100)
        /\ buses[t].distanceRemaining = Some(500)

---------------------------------------------------------------------------
(* C4.  A locationUpdate whose latitude or longitude is missing or outside *)
(* the valid geographic range is rejected with an error and changes no     *)
(* trip; consequently every persisted location has latitude in [-90, 90]   *)
(* and longitude in [-180, 180].                                           *)
(* Stated as: a handler whose report lacks a coordinate or carries one out *)
(* of range never has its write applied, and no stored location is out of  *)
(* range.  The draft revision violates it: nothing checks the range, and   *)
(* findByIdAndUpdate does not run the schema's min/max validators.         *)
C4_OutOfRangeRejected ==
    /\ \A m \in MsgIds :
          LET d == handlers[m].data IN
          (d.type = "locationUpdate"
             /\ (~IsSome(d.latitude) \/ ~IsSome(d.longitude)
                   \/ ~inRange(Get(d.latitude), Get(d.longitude))))
          => ~handlers[m].updatedBus
    /\ \A t \in TripIds :
          IsSome(buses[t].location.latitude) =>
              inRange(Get(buses[t].location.latitude), Get(buses[t].location.longitude))

---------------------------------------------------------------------------
(* Vocabulary of the replies                                               *)

\* The messages in connection c's inbox that handler m caused.
causedBy(c, m) == SelectSeq(inbox[c], LAMBDA msg : msg.cause = m)

\* Handler m has just ended with reply r to its sender and nothing to anybody else.
repliedOnlyToSender(m, r) ==
    LET c == handlers'[m].conn IN
    /\ inbox'[c] = IF readyState[c] = "open" THEN Append(inbox[c], r) ELSE inbox[c]
    /\ \A o \in Connections \ {c} : inbox'[o] = inbox[o]

ErrorTexts == {"Invalid data format", "Failed to process request", "Bus stop ID is required"}

\* Trip id names no trip, or a trip whose route, origin, destination, stop
\* sequence or totalDistance is missing (read off the documents).
unresolvedTrip(id) ==
    \/ id \notin TripIds
    \/ ~IsSome(routeOf[id])
    \/ LET r == RouteDocs[Get(routeOf[id])] IN
          \/ r.origin = None \/ r.destination = None
          \/ r.stops = <<>> \/ r.totalDistance = None

---------------------------------------------------------------------------
(* C5.  When a locationUpdate is processed successfully, a busUpdate       *)
(* carrying the roster is sent to every observer that is open at broadcast *)
(* time; when processing fails, the sender alone receives an error message *)
(* and no observer receives a busUpdate for that message.                  *)
(* Stated on the steps: the step that ends a location update with success  *)
(* appends the busUpdate with the roster it read to the inbox of every     *)
(* open connection and of no other; the step that ends a handler with an   *)
(* error appends one error message to the sender's inbox (if it is still   *)
(* open) and leaves every other inbox as it was; and every busUpdate in an *)
(* inbox was caused by a handler that succeeded or is yet to end.          *)
C5_SuccessStep(m) ==
    (handlers[m].pc = "forEach" /\ handlers'[m].outcome = "ok")
        => \A c \in Connections :
              inbox'[c] = IF readyState[c] = "open"
                          THEN Append(inbox[c], BusUpdateMsg(Get(handlers[m].roster), m))
                          ELSE inbox[c]

C5_FailureStep(m) ==
    (handlers[m].outcome # "error" /\ handlers'[m].outcome = "error")
        => \E text \in ErrorTexts : repliedOnlyToSender(m, ErrorMsg(text, m))

C5_NoUpdateOnFailure ==
    \A m \in MsgIds, c \in Connections :
        (\E i \in 1..Len(inbox[c]) : inbox[c][i].type = "busUpdate" /\ inbox[c][i].cause = m)
            => /\ handlers[m].outcome = "ok"
               /\ handlers[m].updatedBus

C5_Broadcast ==
    /\ [][\A m \in MsgIds : C5_SuccessStep(m) /\ C5_FailureStep(m)]_vars
    /\ []C5_NoUpdateOnFailure

\* One update was broadcast to both observers and another one failed, its
\* error message reaching its sender only.
C5_Witness ==
    \E m, k \in MsgIds :
        /\ handlers[m].outcome = "ok" /\ handlers[m].data.type = "locationUpdate"
        /\ \A c \in Connections : Len(causedBy(c, m)) = 1
        /\ handlers[k].outcome = "error" /\ handlers[k].thrown = "Scheduled bus not found"
        /\ \A c \in Connections :
              Len(causedBy(c, k)) = IF c = handlers[k].conn THEN 1 ELSE 0

---------------------------------------------------------------------------
(* C6.  Processing a location update for a trip that does not exist, or    *)
(* whose route is unresolved (missing route, origin, destination, stop     *)
(* sequence or totalDistance), fails with an error and leaves the          *)
(* persisted state of every trip unchanged.                                *)
(* Stated as: the handler of such an update never reaches the store write, *)
(* never has a write applied, ends with an error that its sender receives, *)
(* and none of its steps changes the collection.                           *)
C6_Unresolved(m) ==
    /\ handlers[m].data.type = "locationUpdate"
    /\ ~invalidDataFormat(handlers[m].data)
    /\ unresolvedTrip(Get(handlers[m].data.scheduledBusId))

C6_NeverWritten ==
    \A m \in MsgIds :
        C6_Unresolved(m) =>
            /\ handlers[m].pc \in {"findById", "findStops", "done"}
            /\ ~handlers[m].updatedBus
            /\ handlers[m].pc = "done" =>
                  /\ handlers[m].outcome = "error"
                  /\ causedBy(handlers[m].conn, m) = <<ErrorMsg("Failed to process request", m)>>

C6_UnresolvedRejected ==
    /\ []C6_NeverWritten
    /\ [][\A m \in MsgIds :
            (handlers'[m] # handlers[m] /\ handlers'[m].data.type = "locationUpdate"
               /\ ~invalidDataFormat(handlers'[m].data)
               /\ unresolvedTrip(Get(handlers'[m].data.scheduledBusId)))
            => buses' = buses]_vars

\* Updates for a trip whose route has no stops and for an unknown trip have
\* both been answered with the error.
C6_Witness ==
    \E m, k \in MsgIds :
        /\ handlers[m].data.scheduledBusId = Some(6)
        /\ handlers[m].thrown = "No stops found for this route"
        /\ handlers[k].data.scheduledBusId = Some(UnknownTrip)
        /\ handlers[k].thrown = "Scheduled bus not found"
        /\ buses = [t \in TripIds |-> NewBus]

---------------------------------------------------------------------------
(* C7.  No processing error closes the connection or affects later         *)
(* messages: after a message that produced an error reply, a subsequent    *)
(* message is processed exactly as if the failing message had never been   *)
(* sent.                                                                   *)
(* Stated as: a handler that ended with an error reply has left its        *)
(* sender's socket open and has applied no write to the collection (the    *)
(* collection and the sockets are all a later message's processing reads). *)
(* The draft revision violates it: the roster query that follows the write *)
(* can be rejected, and the sender is then told the request failed.        *)
C7_ErrorsLeaveNoTrace ==
    \A m \in MsgIds :
        handlers[m].outcome = "error" =>
            /\ ~handlers[m].updatedBus
            /\ readyState[handlers[m].conn] = "open"

---------------------------------------------------------------------------
(* C8.  During a broadcast, an observer that has disconnected does not     *)
(* prevent delivery of the busUpdate to any observer that is still         *)
(* connected.                                                              *)
(* Stated on the broadcast step: when some socket is no longer open, the   *)
(* step still appends the busUpdate as the last message of every open      *)
(* socket's inbox.                                                         *)
C8_DeliveryDespiteDisconnect ==
    [][\A m \in MsgIds :
          (handlers[m].pc = "forEach" /\ handlers'[m].pc = "done"
             /\ \E gone \in Connections : readyState[gone] # "open")
          => \A c \in Connections :
                readyState[c] = "open" =>
                    /\ Len(inbox'[c]) = Len(inbox[c]) + 1
                    /\ inbox'[c][Len(inbox'[c])].type = "busUpdate"
                    /\ inbox'[c][Len(inbox'[c])].cause = m]_vars

\* The sender of an update went away while the update was being processed:
\* it did not get the busUpdate, the other observer did.
C8_Witness ==
    \E m \in MsgIds, c \in Connections :
        /\ handlers[m].outcome = "ok"
        /\ handlers[m].conn = 1 /\ c # 1
        /\ readyState[1] # "open" /\ causedBy(1, m) = <<>>
        /\ readyState[c] = "open" /\ Len(causedBy(c, m)) = 1

---------------------------------------------------------------------------
(* C9.  A busStopRequest with stop id S and optional status list F returns *)
(* exactly the trips whose route's stop sequence contains S and, when F is *)
(* non-empty, whose status is in F, in ascending creation order, limited   *)
(* to the page size: no trip of the first page of matching trips is left   *)
(* out and no other trip is returned.                                      *)
(* The code violates it: it takes the first page of all trips and filters  *)
(* that page, so a matching trip created after the first ten trips is left *)
(* out even when fewer than ten trips match.                               *)
C9_Matches(t, S, F) ==
    /\ IsSome(routeOf[t])
    /\ S \in Range(RouteDocs[Get(routeOf[t])].stops)
    /\ (IsSome(F) /\ Get(F) # {}) => TripStatus(t) \in Get(F)

C9_FirstPageOfMatches(S, F) ==
    LET matching == SelectSeq([i \in 1..Cardinality(TripIds) |-> i],
                              LAMBDA t : C9_Matches(t, S, F))
    IN  SubSeq(matching, 1, Min(PageLimit, Len(matching)))

C9_ExactlyTheMatchingTrips ==
    \A c \in Connections : \A i \in 1..Len(inbox[c]) :
        inbox[c][i].type = "busStopResponse" =>
            LET d == handlers[inbox[c][i].cause].data IN
            inbox[c][i].buses = Some(C9_FirstPageOfMatches(Get(d.busStopId), d.status))

---------------------------------------------------------------------------
(* C10.  A busStopRequest without busStopId gets exactly one reply,        *)
(* {error: "Bus stop ID is required"}, sent to the requester only; no      *)
(* busStopResponse is sent and no store query or state change occurs.      *)
(* Stated as: the handler of such a request is never waiting on the store, *)
(* the only message it ever causes is that error in its sender's inbox,    *)
(* and the step that receives the request leaves the collection unchanged. *)
C10_NoStopId(m) ==
    /\ handlers[m].data.type = "busStopRequest"
    /\ ~IsSome(handlers[m].data.busStopId)

C10_OneErrorReply ==
    \A m \in MsgIds :
        C10_NoStopId(m) =>
            /\ handlers[m].pc = "done"
            /\ handlers[m].outcome = "error"
            /\ \A c \in Connections :
                  causedBy(c, m) = IF c = handlers[m].conn
                                   THEN <<ErrorMsg("Bus stop ID is required", m)>>
                                   ELSE <<>>

C10_MissingStopId ==
    /\ []C10_OneErrorReply
    /\ [][\A m \in MsgIds :
            (handlers[m].pc = "idle" /\ handlers'[m].data.type = "busStopRequest"
               /\ ~IsSome(handlers'[m].data.busStopId))
            => buses' = buses /\ readyState' = readyState]_vars

\* Such a request has been answered, next to a request that was served.
C10_Witness ==
    \E m, k \in MsgIds :
        /\ C10_NoStopId(m)
        /\ causedBy(handlers[m].conn, m) = <<ErrorMsg("Bus stop ID is required", m)>>
        /\ handlers[k].data.type = "busStopRequest" /\ handlers[k].outcome = "ok"

---------------------------------------------------------------------------
(* C11.  A busStopRequest for a stop that is not in the stop sequence of   *)
(* any trip's route yields a busStopResponse with an empty list of trips   *)
(* and no error message, for every content of the store.                   *)
(* Stated as: a request for such a stop that has run to its end without    *)
(* the store rejecting the query has caused exactly one message, the       *)
(* busStopResponse with no trips, in its sender's inbox.  The code         *)
(* violates it on a store in which a trip of the first page refers to a    *)
(* route that no longer exists: populate leaves schedule.route null and    *)
(* the stop filter throws on schedule.route.stops.                         *)
C11_Unserved(S) ==
    \A t \in TripIds :
        IsSome(routeOf[t]) => S \notin Range(RouteDocs[Get(routeOf[t])].stops)

C11_EmptyNotError ==
    \A m \in MsgIds :
        LET d == handlers[m].data IN
        ( /\ d.type = "busStopRequest" /\ IsSome(d.busStopId)
          /\ C11_Unserved(Get(d.busStopId))
          /\ handlers[m].pc = "done"
          /\ handlers[m].thrown # StoreError )
        => causedBy(handlers[m].conn, m) = <<BusStopResponseMsg(<<>>, m)>>

---------------------------------------------------------------------------
(* C12.  A busStopRequest is answered to the requester only and is         *)
(* read-only: no other observer receives any message because of it, and    *)
(* the persisted state of every trip (location, progress, leftAt, status)  *)
(* is unchanged by it.                                                     *)
(* Stated as: whatever a busStopRequest has caused is at most one message, *)
(* a busStopResponse or an error, in its sender's inbox, and its handler   *)
(* has applied no write; and every step of its handler leaves the          *)
(* collection, the route references and every other connection's inbox as  *)
(* they were (the status of a trip is not written by the server at all).   *)
C12_RequesterOnly ==
    \A m \in MsgIds :
        handlers[m].data.type = "busStopRequest" =>
            /\ ~handlers[m].updatedBus
            /\ Len(causedBy(handlers[m].conn, m)) <= 1
            /\ \A i \in 1..Len(causedBy(handlers[m].conn, m)) :
                  causedBy(handlers[m].conn, m)[i].type \in {"busStopResponse", "error"}
            /\ \A o \in Connections \ {handlers[m].conn} : causedBy(o, m) = <<>>

C12_ReadOnlyStep(m) ==
    (handlers'[m] # handlers[m] /\ handlers'[m].data.type = "busStopRequest")
        => /\ buses' = buses
           /\ routeOf' = routeOf
           /\ \A o \in Connections \ {handlers'[m].conn} : inbox'[o] = inbox[o]

C12_QueryReadOnly ==
    /\ []C12_RequesterOnly
    /\ [][\A m \in MsgIds : C12_ReadOnlyStep(m)]_vars

\* A position report was written and broadcast, and a query from the other
\* connection was then served with trips: the query's answer is in its
\* sender's inbox alone and the trip is as the report left it.
C12_Witness ==
    \E m, k \in MsgIds :
        /\ handlers[k].data.type = "locationUpdate" /\ handlers[k].outcome = "ok"
        /\ handlers[m].data.type = "busStopRequest" /\ handlers[m].outcome = "ok"
        /\ handlers[m].conn # handlers[k].conn
        /\ buses[1].location.latitude = Some(6000)
        /\ Len(causedBy(handlers[m].conn, m)) = 1
        /\ causedBy(handlers[m].conn, m)[1].type = "busStopResponse"
        /\ causedBy(handlers[m].conn, m)[1].buses # Some(<<>>)
        /\ causedBy(handlers[k].conn, m) = <<>>

---------------------------------------------------------------------------
(* C13.  A message that cannot be parsed yields                            *)
(* {error: "Failed to process request"} to the sender only, changes no     *)
(* trip, triggers no broadcast, and leaves the connection open.            *)
(* Stated as: the handler of such a message has ended at once with an      *)
(* error, has applied no write, and all it has caused is that one error    *)
(* message in its sender's inbox; and the step that receives the message   *)
(* leaves the collection and the state of every socket as they were, the   *)
(* sender's socket open.                                                   *)
C13_ErrorToSenderOnly ==
    \A m \in MsgIds :
        handlers[m].data.type = "unparseable" =>
            /\ handlers[m].pc = "done"
            /\ handlers[m].outcome = "error"
            /\ ~handlers[m].updatedBus
            /\ \A c \in Connections :
                  causedBy(c, m) = IF c = handlers[m].conn
                                   THEN <<ErrorMsg("Failed to process request", m)>>
                                   ELSE <<>>

C13_ReceivingStep(m) ==
    (handlers[m].pc = "idle" /\ handlers'[m].data.type = "unparseable")
        => /\ buses' = buses
           /\ readyState' = readyState
           /\ readyState'[handlers'[m].conn] = "open"

C13_Unparseable ==
    /\ []C13_ErrorToSenderOnly
    /\ [][\A m \in MsgIds : C13_ReceivingStep(m)]_vars

\* A frame that is not JSON was answered with the error, and a position
\* report sent afterwards on the same socket was written and broadcast.
C13_Witness ==
    \E m, k \in MsgIds :
        /\ m < k
        /\ handlers[m].data.type = "unparseable"
        /\ handlers[m].thrown = "SyntaxError"
        /\ causedBy(handlers[m].conn, m) = <<ErrorMsg("Failed to process request", m)>>
        /\ handlers[k].conn = handlers[m].conn
        /\ handlers[k].data.type = "locationUpdate" /\ handlers[k].outcome = "ok"
        /\ readyState[handlers[m].conn] = "open"

---------------------------------------------------------------------------
(* C14.  For a given trip, location.lastUpdated is monotonically           *)
(* non-decreasing across accepted updates: in every sequence and           *)
(* interleaving of location updates for that trip, each persisted write    *)
(* leaves location.lastUpdated greater than or equal to the value it       *)
(* replaced.                                                               *)
(* Stated on the steps: no step replaces a stored lastUpdated by an        *)
(* earlier one.  The draft revision violates it: new Date() is read when   *)
(* updateFields is built, before the await of findByIdAndUpdate, so of two *)
(* updates in flight the one that read the clock first can be written      *)
(* last.                                                                   *)
C14_LastUpdatedMonotone ==
    [][\A t \in TripIds :
          IsSome(buses[t].location.lastUpdated) =>
              /\ IsSome(buses'[t].location.lastUpdated)
              /\ Get(buses'[t].location.lastUpdated) >= Get(buses[t].location.lastUpdated)
      ]_vars

---------------------------------------------------------------------------
(* C15.  Updates to different trips are fully independent: a location      *)
(* update for trip A never changes any persisted field of a different trip *)
(* B, and for concurrent updates to different trips the final persisted    *)
(* state of each trip equals the state obtained by processing that trip's  *)
(* updates alone.                                                          *)
(* Stated as: every step of the handler of an update for trip A leaves the *)
(* document of every other trip as it was; and the document of each trip   *)
(* is always one that the updates written for that trip produce by         *)
(* themselves, starting from the new document: the last of them applied    *)
(* to what the others produced, its fields computed from a document the    *)
(* others produced (the clock stands still in this specification).         *)
C15_OtherTripsUntouched(m) ==
    (handlers'[m] # handlers[m] /\ handlers'[m].data.type = "locationUpdate"
       /\ IsSome(handlers'[m].data.scheduledBusId))
        => \A t \in TripIds \ {Get(handlers'[m].data.scheduledBusId)} :
              buses'[t] = buses[t]

\* The handlers whose write for trip t was applied.
C15_Written(t) == {m \in MsgIds : isUpdateFor(m, t) /\ handlers[m].updatedBus}

\* The documents of trip t that the updates in W produce, every one of them
\* written once, in any order and with any overlap.
RECURSIVE C15_Alone(_, _)
C15_Alone(t, W) ==
    IF W = {} THEN {NewBus}
    ELSE UNION {
           {applySet(prev, updateFields(read, Get(routeOf[t]),
                                        Get(handlers[m].data.latitude),
                                        Get(handlers[m].data.longitude), now)) :
                prev \in C15_Alone(t, W \ {m}),
                read \in UNION {C15_Alone(t, R) : R \in SUBSET (W \ {m})}}
           : m \in W}

C15_AsIfAlone ==
    \A t \in TripIds : buses[t] \in C15_Alone(t, C15_Written(t))

C15_TripsIndependent ==
    /\ []C15_AsIfAlone
    /\ [][\A m \in MsgIds : C15_OtherTripsUntouched(m)]_vars

\* Updates of two trips were in flight together and both were written: each
\* trip carries its own report and its own stop.
C15_Witness ==
    \E m, k \in MsgIds :
        /\ isUpdateFor(m, 1) /\ isUpdateFor(k, 2)
        /\ handlers[m].pc = "find" /\ handlers[k].pc = "find"
        /\ buses[1].location.latitude = Some(6000)
        /\ countStop(buses[1].leftAt, "M") = 1
        /\ buses[2].location.latitude = Some(1003)
        /\ countStop(buses[2].leftAt, "A2") = 1
        /\ countStop(buses[2].leftAt, "M") = 0

---------------------------------------------------------------------------
(* C16.  Broadcasts are self-healing: the roster carried by the busUpdate  *)
(* triggered by a location update reflects that update's persisted write   *)
(* (or a later write to the same trip), and once all in-flight updates     *)
(* have completed, the last busUpdate received by an observer that stayed  *)
(* connected equals the current persisted roster.                          *)
(* Stated as: every busUpdate in an inbox was caused by a handler whose    *)
(* write was applied and carries a written document for that handler's     *)
(* trip; and when no handler is in flight and the store has rejected no    *)
(* call, the last busUpdate in the inbox of every open connection carries  *)
(* the collection as it is.  The draft revision violates the second half:  *)
(* the roster is read by one await and sent after it, so the handler that  *)
(* read the older roster can be the one that broadcasts last.              *)
C16_BusUpdates(c) == SelectSeq(inbox[c], LAMBDA msg : msg.type = "busUpdate")

C16_RosterReflectsWrite ==
    \A c \in Connections : \A i \in 1..Len(C16_BusUpdates(c)) :
        LET msg == C16_BusUpdates(c)[i]
            m == msg.cause
            t == Get(handlers[m].data.scheduledBusId)
        IN  /\ handlers[m].updatedBus
            /\ IsSome(Get(msg.buses)[t].location.lastUpdated)

C16_LastRosterCurrent ==
    ( /\ quiescent
      /\ \A m \in MsgIds : handlers[m].thrown # StoreError )
    => \A c \in Connections :
          (readyState[c] = "open" /\ C16_BusUpdates(c) # <<>>)
              => C16_BusUpdates(c)[Len(C16_BusUpdates(c))].buses = Some(buses)

C16_SelfHealing ==
    /\ C16_RosterReflectsWrite
    /\ C16_LastRosterCurrent

---------------------------------------------------------------------------
(* C17.  If the store write of a location update fails, none of the        *)
(* derived values of that update (location, distanceTraveled,              *)
(* distanceRemaining, journeyCompletion, speed, leftAt additions) become   *)
(* part of the trip's persisted state or of any later update's input, and  *)
(* no busUpdate is broadcast for it; a retry of the same update then       *)
(* behaves as if the failed attempt never happened.                        *)
(* Stated as: the step in which findByIdAndUpdate is rejected, and every   *)
(* other step of a handler whose write has not been applied, leaves the    *)
(* collection (all that a later update reads) as it was; a handler whose   *)
(* write was rejected has caused no busUpdate; and the document of each    *)
(* trip is always one that the updates whose write was applied produce by  *)
(* themselves, the rejected ones left out.                                 *)
C17_WriteRejected(m) ==
    /\ handlers[m].data.type = "locationUpdate"
    /\ handlers[m].thrown = StoreError
    /\ ~handlers[m].updatedBus

C17_RejectedStep(m) ==
    (handlers'[m] # handlers[m] /\ ~handlers'[m].updatedBus) => buses' = buses

C17_NoTrace ==
    /\ \A m \in MsgIds :
          C17_WriteRejected(m) =>
              \A c \in Connections : \A i \in 1..Len(causedBy(c, m)) :
                  causedBy(c, m)[i].type # "busUpdate"
    /\ \A t \in TripIds :
          buses[t] \in C15_Alone(t, {m \in MsgIds : isUpdateFor(m, t) /\ handlers[m].updatedBus})

C17_FailedWriteLeavesNothing ==
    /\ []C17_NoTrace
    /\ [][\A m \in MsgIds : C17_RejectedStep(m)]_vars

\* The write of a report that had a stop to record was rejected; the same
\* report sent again was written and broadcast, and the trip is what the
\* second report alone makes of a new document.
C17_Witness ==
    \E m, k \in MsgIds :
        /\ m < k
        /\ C17_WriteRejected(m) /\ handlers[m].pushed = Some("M")
        /\ handlers[k].data = handlers[m].data
        /\ handlers[k].outcome = "ok"
        /\ buses[1] = applySet(NewBus, updateFields(NewBus, "R1", 6000, Meridian, now))
        /\ countStop(buses[1].leftAt, "M") = 1

---------------------------------------------------------------------------
(* C18.  A slow or blocked observer does not stall the system: delivery of *)
(* a busUpdate to the other observers and the processing of the next       *)
(* inbound location update are both able to proceed while one observer's   *)
(* send has not completed.                                                 *)
(* Stated as: while some open socket holds a message its peer has not yet  *)
(* taken, the broadcast step still hands the busUpdate to every open       *)
(* socket, every handler in flight can take its next step, and a new       *)
(* position report can be received as long as the bound on messages is not *)
(* reached.                                                                *)
C18_Slow(c) == readyState[c] = "open" /\ received[c] < Len(inbox[c])

C18_DeliveryStep(m) ==
    ( /\ handlers[m].pc = "forEach" /\ handlers'[m].pc = "done"
      /\ \E s \in Connections : C18_Slow(s) )
    => \A c \in Connections :
          readyState[c] = "open" =>
              inbox'[c] = Append(inbox[c], BusUpdateMsg(Get(handlers[m].roster), m))

C18_CanProceed ==
    (\E s \in Connections : C18_Slow(s)) =>
        /\ \A m \in MsgIds :
              /\ handlers[m].pc = "findById" => ENABLED FindById(m)
              /\ handlers[m].pc = "findStops" => ENABLED FindStops(m)
              /\ handlers[m].pc = "findByIdAndUpdate" => ENABLED FindByIdAndUpdate(m)
              /\ handlers[m].pc = "find" => ENABLED Find(m)
              /\ handlers[m].pc = "forEach" => ENABLED ForEach(m)
        /\ (\E m \in MsgIds : handlers[m].pc = "idle")
              => \A d \in BacklogInputs : ENABLED OnMessage(1, d)

C18_SlowObserverStallsNothing ==
    /\ []C18_CanProceed
    /\ [][\A m \in MsgIds : C18_DeliveryStep(m)]_vars

\* Observer 1 has taken none of the two busUpdates sent to it, while both
\* reports were processed to their end and observer 2 has taken both.
C18_Witness ==
    /\ received[1] = 0 /\ Len(C16_BusUpdates(1)) = 2
    /\ received[2] = 2 /\ Len(C16_BusUpdates(2)) = 2
    /\ \A m \in MsgIds : handlers[m].outcome = "ok"

---------------------------------------------------------------------------
(* C19.  When a location update fails because the trip is not found, the   *)
(* error reported is distinguishable from the error reported when the trip *)
(* exists but its route is incomplete.                                     *)
(* Stated as: of two updates that have failed without the store rejecting  *)
(* a call, one for an id that names no trip and one for a trip whose route *)
(* lacks a required detail, the error messages sent to the senders differ. *)
(* The code violates it: the catch of updateBusLocation replaces either    *)
(* error by Error("Error updating bus location") and the handler's catch   *)
(* answers both with "Failed to process request"; the two differ only in   *)
(* the line written to the console (C19_LoggedDiffers).                    *)
C19_Failed(m) ==
    /\ handlers[m].data.type = "locationUpdate"
    /\ ~invalidDataFormat(handlers[m].data)
    /\ handlers[m].pc = "done"
    /\ handlers[m].thrown # StoreError

C19_NotFound(m) ==
    C19_Failed(m) /\ Get(handlers[m].data.scheduledBusId) \notin TripIds

C19_RouteIncomplete(m) ==
    /\ C19_Failed(m)
    /\ Get(handlers[m].data.scheduledBusId) \in TripIds
    /\ unresolvedTrip(Get(handlers[m].data.scheduledBusId))

\* The error text sent to the sender of m.
C19_Reported(m) == causedBy(handlers[m].conn, m)[1].error

C19_Distinguishable ==
    \A m, k \in MsgIds :
        (C19_NotFound(m) /\ C19_RouteIncomplete(k)) => C19_Reported(m) # C19_Reported(k)

C19_LoggedDiffers ==
    \A m, k \in MsgIds :
        (C19_NotFound(m) /\ C19_RouteIncomplete(k)) => handlers[m].thrown # handlers[k].thrown

---------------------------------------------------------------------------
(* C20.  When one location update places the vehicle within the proximity  *)
(* threshold of several route stops that are not yet in leftAt, all of     *)
(* those stops are appended to leftAt by that single update, in            *)
(* route-sequence order.                                                   *)
(* Stated as: when the only update of a trip has run to its end and the    *)
(* store rejected none of its calls, the stops named by the trip's leftAt  *)
(* are the stops of its route within the threshold of the reported         *)
(* position, in the order of the route.  The code violates it: stops.find  *)
(* yields one stop, the first within the threshold in the order the store  *)
(* returned the stops; and index.js, which means to push several, reads    *)
(* the undeclared busData and passedStops and never writes.                *)
C20_NearStops(t, d) ==
    SelectSeq(RouteDocs[Get(routeOf[t])].stops, LAMBDA s : nearStop(d, s))

C20_AllNearStopsAppended ==
    \A t \in TrackedTrips :
        LET reports == {m \in MsgIds : isUpdateFor(m, t)} IN
        \A m \in reports :
            ( /\ reports = {m}
              /\ handlers[m].pc = "done"
              /\ handlers[m].thrown # StoreError )
            => [i \in 1..Len(buses[t].leftAt) |-> buses[t].leftAt[i].stop]
                 = C20_NearStops(t, handlers[m].data)

---------------------------------------------------------------------------
(* C21.  On the first location update of a trip (no previous fix), and     *)
(* whenever the time of the new fix does not strictly exceed               *)
(* location.lastUpdated, the speed estimate is absent and the trip's       *)
(* persisted speed is left unchanged (not zeroed or overwritten);          *)
(* otherwise speed is set to distance(previous fix, current fix) divided   *)
(* by the elapsed time.                                                    *)
(* Stated on the step that applies an update's write, the previous fix     *)
(* being the location of the document the update read: without a previous  *)
(* fix, or with a previous fix that is not older than the new one, the     *)
(* step leaves the stored speed as it was; otherwise it stores the         *)
(* distance of the two fixes divided by the time between them.             *)
C21_SpeedStep(m) ==
    (handlers[m].pc = "findByIdAndUpdate" /\ handlers'[m].pc = "find") =>
        LET id == Get(handlers[m].data.scheduledBusId)
            prev == Get(handlers[m].scheduledBus).location
            fix == Get(handlers[m].updateFields)
        IN  IF \/ ~IsSome(prev.latitude) \/ ~IsSome(prev.lastUpdated)
               \/ fix.lastUpdated <= Get(prev.lastUpdated)
            THEN buses'[id].speed = buses[id].speed
            ELSE buses'[id].speed =
                   Some(Abs(fix.latitude - Get(prev.latitude))
                          \div (fix.lastUpdated - Get(prev.lastUpdated)))

C21_Speed ==
    [][\A m \in MsgIds : C21_SpeedStep(m)]_vars

\* The first report of the trip left the speed absent; the second, one unit
\* of time later and 4997 m further on, set it to 4997 m per unit.
C21_Witness ==
    \E m, k \in MsgIds :
        /\ m # k
        /\ handlers[m].data.latitude = Some(1003) /\ handlers[m].pc = "done"
        /\ handlers[k].data.latitude = Some(6000) /\ handlers[k].updatedBus
        /\ buses[1].location.lastUpdated = Some(1)
        /\ buses[1].speed = Some(4997)

---------------------------------------------------------------------------
(* C22.  After a successful location update, distanceTraveled equals       *)
(* distance(route origin, reported position), distanceRemaining equals     *)
(* distance(reported position, route destination), and journeyCompletion   *)
(* equals distanceTraveled / totalDistance * 100 clamped to [0,100]; e.g.  *)
(* with totalDistance 10, an update at the origin gives distanceTraveled 0 *)
(* and completion 0, and an update 5 from the origin on the route gives    *)
(* completion 50 and distanceRemaining 5.                                  *)
(* Stated as: the document of every trip that has a position carries, for  *)
(* that position, the distance from the origin and the distance to the     *)
(* destination of its route in hundredths of a kilometre and the quotient  *)
(* of the first by totalDistance in hundredths of a percent, at most 100   *)
(* percent; on the 10 km route a position at the origin gives 0 and 0, a   *)
(* position 5 km on gives 50 percent and 5 km remaining.                   *)
C22_Metrics(t) ==
    LET lat == Get(buses[t].location.latitude)
        r == RouteDocs[Get(routeOf[t])]
        o == BusStopDocs[Get(r.origin)].coordinates.lat
        d == BusStopDocs[Get(r.destination)].coordinates.lat
        total == Get(r.totalDistance)
        percent == (Abs(lat - o) * 100 * 100 + total \div 2) \div total
    IN  /\ buses[t].distanceTraveled = Some((Abs(lat - o) + 5) \div 10)
        /\ buses[t].distanceRemaining = Some((Abs(d - lat) + 5) \div 10)
        /\ buses[t].journeyCompletion = Some(IF percent > 100 * 100 THEN 100 * 100 ELSE percent)

C22_Examples(t) ==
    /\ (routeOf[t] = Some("R1") /\ buses[t].location.latitude = Some(1000))
          => /\ buses[t].distanceTraveled = Some(0)
             /\ buses[t].journeyCompletion = Some(0)
    /\ (routeOf[t] = Some("R1") /\ buses[t].location.latitude = Some(6000))
          => /\ buses[t].journeyCompletion = Some(50 * 100)
             /\ buses[t].distanceRemaining = Some(5 * 100)

C22_ProgressFromPosition ==
    \A t \in TripIds :
        IsSome(buses[t].location.latitude) => C22_Metrics(t) /\ C22_Examples(t)

\* A report at the origin was written, and after it a report 5 km on: the
\* trip stands at 50 percent with 5 km travelled and 5 km remaining.
C22_Witness ==
    \E m, k \in MsgIds :
        /\ m < k
        /\ isUpdateFor(m, 1) /\ handlers[m].data.latitude = Some(1000)
        /\ handlers[m].outcome = "ok"
        /\ isUpdateFor(k, 1) /\ handlers[k].data.latitude = Some(6000)
        /\ handlers[k].outcome = "ok"
        /\ buses[1].location.latitude = Some(6000)
        /\ buses[1].distanceTraveled = Some(5 * 100)
        /\ buses[1].distanceRemaining = Some(5 * 100)
        /\ buses[1].journeyCompletion = Some(50 * 100)

---------------------------------------------------------------------------
(* C23.  Progress is origin-anchored and history-independent: the          *)
(* distanceTraveled, distanceRemaining and journeyCompletion persisted by  *)
(* a location update depend only on the reported position and the route,   *)
(* not on any earlier fix, so processing the same position twice in a row, *)
(* or after any other sequence of updates, yields the same three values.   *)
(* Stated as: two trips of the same route whose documents carry the same   *)
(* position carry the same three values, whatever was reported for either  *)
(* before; and a write that reports the position the document already      *)
(* carries leaves the three values as they are.                            *)
C23_Progress(doc) ==
    <<doc.distanceTraveled, doc.distanceRemaining, doc.journeyCompletion>>

C23_SamePositionSameProgress ==
    \A t, u \in TripIds :
        ( /\ IsSome(routeOf[t]) /\ routeOf[t] = routeOf[u]
          /\ IsSome(buses[t].location.latitude)
          /\ buses[t].location.latitude = buses[u].location.latitude
          /\ buses[t].location.longitude = buses[u].location.longitude )
        => C23_Progress(buses[t]) = C23_Progress(buses[u])

C23_RepeatStep(m) ==
    ( /\ handlers[m].pc = "findByIdAndUpdate" /\ handlers'[m].pc = "find"
      /\ buses[Get(handlers[m].data.scheduledBusId)].location.latitude
            = handlers[m].data.latitude
      /\ buses[Get(handlers[m].data.scheduledBusId)].location.longitude
            = handlers[m].data.longitude )
    => C23_Progress(buses'[Get(handlers[m].data.scheduledBusId)])
         = C23_Progress(buses[Get(handlers[m].data.scheduledBusId)])

---------------------------------------------------------------------------
(* C24.  A locationUpdate carrying an in-range position for an existing    *)
(* trip whose route is fully resolved (origin, destination, non-empty stop *)
(* sequence with coordinates in valid range, positive totalDistance) is    *)
(* never rejected: it is persisted and followed by a busUpdate broadcast,  *)
(* and the sender receives no error.                                       *)
(* Stated as: when the handler of such an update has run to its end and    *)
(* the store rejected none of its calls, its write was applied, it ended   *)
(* with the broadcast, and what it caused in its sender's inbox is that    *)
(* one busUpdate.  index.js violates it: every update that passes the      *)
(* checks reaches line 177, which reads the undeclared busData.            *)
C24_Acceptable(m) ==
    /\ handlers[m].data.type = "locationUpdate"
    /\ ~invalidDataFormat(handlers[m].data)
    /\ inRange(Get(handlers[m].data.latitude), Get(handlers[m].data.longitude))
    /\ ~unresolvedTrip(Get(handlers[m].data.scheduledBusId))

C24_NeverRejected ==
    \A m \in MsgIds :
        ( /\ C24_Acceptable(m)
          /\ handlers[m].pc = "done"
          /\ handlers[m].thrown # StoreError )
        => /\ handlers[m].updatedBus
           /\ handlers[m].outcome = "ok"
           /\ Len(causedBy(handlers[m].conn, m)) = 1
           /\ causedBy(handlers[m].conn, m)[1].type = "busUpdate"

---------------------------------------------------------------------------
(* C25.  The sender of a locationUpdate receives an error reply only if    *)
(* that message changed no persisted trip state: there is no execution in  *)
(* which the update is written to the store and the sender is nevertheless *)
(* told the request failed.                                                *)
(* Stated as: no locationUpdate has both an error message caused by it in  *)
(* its sender's inbox and its write applied to the collection.  The draft  *)
(* revision violates it: the roster query ScheduledBus.find() runs after   *)
(* the write inside the same try, and when the store rejects it the catch  *)
(* tells the sender that the request failed.                               *)
C25_ToldFailed(m) ==
    \E i \in 1..Len(inbox[handlers[m].conn]) :
        /\ inbox[handlers[m].conn][i].cause = m
        /\ inbox[handlers[m].conn][i].type = "error"

C25_ErrorOnlyIfUnwritten ==
    \A m \in MsgIds :
        (handlers[m].data.type = "locationUpdate" /\ C25_ToldFailed(m))
            => ~handlers[m].updatedBus

---------------------------------------------------------------------------
(* C26.  When location updates for a trip are processed one after another  *)
(* (no overlap), leftAt is append-only: each update leaves every existing  *)
(* leftAt entry, its timestamp and the relative order of entries           *)
(* unchanged, and adds new entries only at the end.                        *)
(* Stated on the steps of the specification in which a report is received  *)
(* only after the one before it has run to its end: every step leaves the  *)
(* leftAt of every trip with its former entries, stop and time, as its     *)
(* first entries in the same order.                                        *)
C26_AppendOnlyStep(t) ==
    /\ Len(buses'[t].leftAt) >= Len(buses[t].leftAt)
    /\ SubSeq(buses'[t].leftAt, 1, Len(buses[t].leftAt)) = buses[t].leftAt

C26_AppendOnly ==
    [][\A t \in TripIds : C26_AppendOnlyStep(t)]_vars

\* Two reports in turn, the clock advancing between them: the entry of stop
\* A2 stands first with its time, the entry of stop M was added behind it.
C26_Witness ==
    buses[1].leftAt = <<[stop |-> "A2", time |-> 0], [stop |-> "M", time |-> 1]>>

---------------------------------------------------------------------------
(* C27.  Every stop recorded in a trip's leftAt is a member of that trip's *)
(* route stop sequence and was within the proximity threshold of a         *)
(* position reported for that trip; a location update never records a stop *)
(* of another route.                                                       *)
(* Stated as: every entry of every trip's leftAt names a stop of the       *)
(* trip's route, and some position report for that trip whose handler got  *)
(* as far as the write lies within the threshold of that stop.             *)
C27_RecordedStopsAreRouteStops ==
    \A t \in TripIds : \A i \in 1..Len(buses[t].leftAt) :
        LET s == buses[t].leftAt[i].stop IN
        /\ IsSome(routeOf[t])
        /\ s \in Range(RouteDocs[Get(routeOf[t])].stops)
        /\ \E m \in MsgIds :
              /\ isUpdateFor(m, t)
              /\ handlers[m].updatedBus
              /\ nearStop(handlers[m].data, s)

\* Trip 8 reported from next to stops A and A2 of the other route and from
\* its own stop M, and both writes were applied: M alone is recorded.
C27_Witness ==
    \E m, k \in MsgIds :
        /\ isUpdateFor(m, 8) /\ handlers[m].data.latitude = Some(1003)
        /\ handlers[m].updatedBus
        /\ isUpdateFor(k, 8) /\ handlers[k].data.latitude = Some(6000)
        /\ handlers[k].updatedBus
        /\ quiescent
        /\ Len(buses[8].leftAt) = 1
        /\ buses[8].leftAt[1].stop = "M"

=============================================================================
